---- MODULE Spec2Model ----
(***************************************************************************)
(* Model of the Vision Wagon Orchestrator                                  *)
(* (vision_wagon/orchestrator.py): agent registry, priority task queue,    *)
(* worker pool, retry handling and cancellation.                           *)
(*                                                                         *)
(* The orchestrator runs on one asyncio event loop.  Every action below    *)
(* is the code that runs between two suspension points (await of the       *)
(* queue, of the agent, of a sleep, of an event handler or callback).      *)
(***************************************************************************)
EXTENDS Integers, Sequences, FiniteSets, TLC

(* ------------------------------------------------------------------ *)
(* Program constants                                                    *)
(* ------------------------------------------------------------------ *)

\* TaskPriority values
LOW == 1
NORMAL == 2
HIGH == 3
CRITICAL == 4

\* submit_task: max_retries=max_retries or 3
DefaultMaxRetries == 3

(* ------------------------------------------------------------------ *)
(* Bounds of the model                                                  *)
(* ------------------------------------------------------------------ *)

\* number of tasks ever created
MaxTasks == 2
\* max_concurrent_tasks: number of worker coroutines
NumWorkers == 1
\* largest max_retries argument a caller passes (0 .. MaxRetriesArg)
MaxRetriesArg == 1
\* priorities a caller passes: MinPriorityArg .. MaxPriorityArg (within LOW..CRITICAL)
MinPriorityArg == 2
MaxPriorityArg == 3
\* number of times datetime.utcnow() is seen to advance between two Task creations
MaxClock == 2
\* handlers registered per event
MaxHandlers == 2
\* the worker pool on its own: max_concurrent_tasks and the tasks submitted
PoolWorkers == 2
\* the workflows created and the steps of one workflow
MaxWorkflows == 1
MaxWorkflowSteps == 3
\* the steps of a workflow whose tasks may also fail and be retried
MaxOutcomeSteps == 2
\* max_retries of the tasks submitted with a callback
CallbackRetries == 2
PoolTasks == 3

\* agents that get registered, and an agent id that is never registered
AgentIds == {"a1"}
UnknownAgentIds == {"a0"}
PriorityArgs == {p \in LOW..CRITICAL : MinPriorityArg <= p /\ p <= MaxPriorityArg}
RetriesArgs == 0..MaxRetriesArg
\* the events that handlers are registered for, and what a handler does
HandledEvents == {"agent_registered", "agent_unregistered"}
HandlerBehaviours == {"returns", "raises"}

VARIABLES
    is_running,          \* Orchestrator.is_running
    registered_agents,   \* keys of Orchestrator.registered_agents
    tasks,               \* the Task objects created so far, by task id
    task_queue,          \* the heap list of the asyncio.PriorityQueue
    pending_tasks_by_id, \* keys of the dicts of the same names
    running_tasks,
    completed_tasks,
    failed_tasks,
    metrics,             \* tasks_executed / tasks_completed / tasks_failed
    emitted,             \* the events the last step handed to _emit_event, in order
    workers,             \* per worker coroutine: where it is suspended
    clock,               \* the last value datetime.utcnow() returned
    ret,                 \* what the last caller-facing call returned or raised
    is_initialized,      \* BaseAgent.is_initialized of each agent object
    agent_capabilities,  \* keys of Orchestrator.agent_capabilities
    event_handlers,      \* Orchestrator.event_handlers: per event, the handlers in
                         \* registration order, each by how it behaves when called
    called,              \* the calls the last step made on agent objects and on
                         \* event handlers, in order
    health_check,        \* the _health_check_loop coroutine and its locals
    workflows            \* Orchestrator.workflows and the execute_workflow call

vars == <<is_running, registered_agents, tasks, task_queue, pending_tasks_by_id,
          running_tasks, completed_tasks, failed_tasks, metrics, emitted,
          workers, clock, ret, is_initialized, agent_capabilities,
          event_handlers, called, health_check, workflows>>

TaskIds == 1..Len(tasks)

(* ------------------------------------------------------------------ *)
(* The priority queue: heapq on tuples (priority, created_at, task)     *)
(* ------------------------------------------------------------------ *)

\* Python's tuple "<" on two queue entries.  Entries are <<priority value,
\* created_at, task id>>.  When priority and created_at are both equal the
\* comparison falls through to the Task objects: the same object is equal to
\* itself (not less), two different Task objects raise TypeError.
EntryLess(a, b) ==
    IF a[1] # b[1] THEN (IF a[1] < b[1] THEN "lt" ELSE "ge")
    ELSE IF a[2] # b[2] THEN (IF a[2] < b[2] THEN "lt" ELSE "ge")
    ELSE IF a[3] = b[3] THEN "ge"
    ELSE "err"

Swap(h, i, j) == [h EXCEPT ![i] = h[j], ![j] = h[i]]

\* heapq _siftdown: move the entry at pos up towards the root while it is
\* smaller than its parent (positions are 1-based here).
RECURSIVE SiftDown(_, _, _)
SiftDown(h, startpos, pos) ==
    IF pos <= startpos THEN [heap |-> h, ok |-> TRUE]
    ELSE LET parent == pos \div 2
             c == EntryLess(h[pos], h[parent])
         IN  IF c = "err" THEN [heap |-> h, ok |-> FALSE]
             ELSE IF c = "ge" THEN [heap |-> h, ok |-> TRUE]
             ELSE SiftDown(Swap(h, pos, parent), startpos, parent)

\* heapq _siftup: move the entry at pos down to a leaf along the smaller
\* children, then sift it back up.
RECURSIVE SiftUp(_, _, _)
SiftUp(h, startpos, pos) ==
    LET n == Len(h)
        left == 2 * pos
        right == 2 * pos + 1
    IN  IF left > n THEN SiftDown(h, startpos, pos)
        ELSE LET c == IF right <= n THEN EntryLess(h[left], h[right]) ELSE "lt"
                 child == IF c = "lt" THEN left ELSE right
             IN  IF c = "err" THEN [heap |-> h, ok |-> FALSE]
                 ELSE SiftUp(Swap(h, pos, child), startpos, child)

\* PriorityQueue._put: heappush(self._queue, item)
HeapPush(h, item) == SiftDown(Append(h, item), 1, Len(h) + 1)

\* PriorityQueue._get: heappop(self._queue).  item is the entry returned;
\* when a comparison raises, the entry taken from the root is lost.
HeapPop(h) ==
    LET n == Len(h)
        last == h[n]
        rest == SubSeq(h, 1, n - 1)
    IN  IF n = 1 THEN [heap |-> rest, ok |-> TRUE, item |-> last]
        ELSE LET r == SiftUp([rest EXCEPT ![1] = last], 1, 1)
             IN  [heap |-> r.heap, ok |-> r.ok, item |-> h[1]]

(* ------------------------------------------------------------------ *)
(* Initial state: Orchestrator.__init__                                 *)
(* ------------------------------------------------------------------ *)

\* n: the configured max_concurrent_tasks
InitN(n) ==
    /\ is_running = FALSE
    /\ registered_agents = {}
    /\ tasks = <<>>
    /\ task_queue = <<>>
    /\ pending_tasks_by_id = {}
    /\ running_tasks = {}
    /\ completed_tasks = {}
    /\ failed_tasks = {}
    /\ metrics = [tasks_executed |-> 0, tasks_completed |-> 0, tasks_failed |-> 0]
    /\ emitted = <<>>
    /\ workers = [w \in 1..n |-> [pc |-> "stopped", task |-> 0, via |-> "none"]]
    /\ clock = 0
    /\ ret = "none"
    /\ is_initialized = [a \in AgentIds \cup UnknownAgentIds |-> FALSE]
    /\ agent_capabilities = {}
    /\ event_handlers = [ev \in HandledEvents |-> <<>>]
    /\ called = <<>>
    /\ health_check = [pc |-> "stopped", probed |-> {}, unhealthy_agents |-> {}, db_healthy |-> TRUE]
    /\ workflows = <<>>

Init == InitN(NumWorkers)

(* ------------------------------------------------------------------ *)
(* Helpers                                                              *)
(* ------------------------------------------------------------------ *)

SetStatus(T, t, st) == [T EXCEPT ![t].status = st]

\* _emit_event(event, {'task_id': t, ...}) appended to the events E of a step
Emit(E, t, ev) == Append(E, <<ev, t>>)

SetWorker(w, pc, t, via) == [workers EXCEPT ![w] = [pc |-> pc, task |-> t, via |-> via]]

\* what a step hands back: the value returned or raised to the caller of a
\* caller-facing call ("none" for a worker step) and the events it emitted
Out(r, E) == ret' = r /\ emitted' = E

\* queue entry of a task: (priority.value, task.created_at, task)
Entry(t) == <<tasks[t].priority, tasks[t].created_at, t>>

(* ------------------------------------------------------------------ *)
(* Orchestrator.start                                                   *)
(* ------------------------------------------------------------------ *)

\* start(): raises (after stop()) when the database probe fails; otherwise
\* creates the worker coroutines.
Start(db_ok) ==
    /\ ~is_running
    /\ IF db_ok
       THEN /\ is_running' = TRUE
            /\ workers' = [w \in DOMAIN workers |-> [pc |-> "get", task |-> 0, via |-> "none"]]
            /\ Out("none", <<>>)
       ELSE /\ Out("Exception", <<>>)
            /\ UNCHANGED <<is_running, workers>>
    /\ UNCHANGED <<registered_agents, tasks, task_queue, pending_tasks_by_id,
                   running_tasks, completed_tasks, failed_tasks, metrics, clock>>

(* ------------------------------------------------------------------ *)
(* Orchestrator.stop                                                    *)
(* ------------------------------------------------------------------ *)

\* the workers that stop() cancels inside _process_single_task: CancelledError
\* is no Exception, so only the finally block runs on their task
CancelledInTask == {w \in DOMAIN workers : workers[w].pc \in {"process", "callback", "retry_delay", "finally"}}

\* stop() that also forgets the history of finished tasks
StopClearsHistory ==
    /\ is_running
    /\ is_running' = FALSE
    /\ workers' = [w \in DOMAIN workers |-> [pc |-> "stopped", task |-> 0, via |-> "none"]]
    /\ running_tasks' = {}
    /\ completed_tasks' = {}
    /\ failed_tasks' = {}
    /\ health_check' = [health_check EXCEPT !.pc = "stopped"]
    /\ Out("none", <<>>)
    /\ UNCHANGED <<registered_agents, tasks, task_queue, pending_tasks_by_id, metrics,
                   clock, is_initialized, agent_capabilities, event_handlers, called,
                   workflows>>

\* stop(): is_running is cleared, every worker and the health-check loop are
\* cancelled and awaited, then every registered agent is cleaned up.  A
\* worker cancelled inside _process_single_task runs its finally block: its
\* task leaves running_tasks and is counted by _update_task_metrics with the
\* status it has at that moment.
Stop ==
    /\ is_running
    /\ is_running' = FALSE
    /\ workers' = [w \in DOMAIN workers |-> [pc |-> "stopped", task |-> 0, via |-> "none"]]
    /\ running_tasks' = running_tasks \ {workers[w].task : w \in CancelledInTask}
    /\ metrics' =
          [tasks_executed |-> metrics.tasks_executed + Cardinality(CancelledInTask),
           tasks_completed |-> metrics.tasks_completed + Cardinality(
               {w \in CancelledInTask : tasks[workers[w].task].status = "completed"}),
           tasks_failed |-> metrics.tasks_failed + Cardinality(
               {w \in CancelledInTask : tasks[workers[w].task].status = "failed"})]
    /\ health_check' = [health_check EXCEPT !.pc = "stopped"]
    /\ is_initialized' = [a \in DOMAIN is_initialized |->
                             IF a \in registered_agents THEN FALSE ELSE is_initialized[a]]
    /\ Out("none", <<>>)
    /\ UNCHANGED <<registered_agents, tasks, task_queue, pending_tasks_by_id,
                   completed_tasks, failed_tasks, clock, agent_capabilities,
                   event_handlers, called, workflows>>

(* ------------------------------------------------------------------ *)
(* Agent registry                                                       *)
(* ------------------------------------------------------------------ *)

\* on(event, handler): behaviour is what the handler does when it is called
On(event, behaviour) ==
    /\ event_handlers' = [event_handlers EXCEPT ![event] = Append(@, behaviour)]
    /\ Out("none", <<>>)
    /\ called' = <<>>
    /\ UNCHANGED <<is_running, registered_agents, tasks, task_queue, pending_tasks_by_id,
                   running_tasks, completed_tasks, failed_tasks, metrics, workers, clock,
                   is_initialized, agent_capabilities>>

\* _emit_event without its try/except: the first handler that raises ends the
\* loop and its exception reaches the emitting operation
RECURSIVE EmitEventUnguarded(_, _, _)
EmitEventUnguarded(event, i, calls) ==
    IF i > Len(event_handlers[event]) THEN [called |-> calls, raised |-> FALSE]
    ELSE IF event_handlers[event][i] = "raises"
         THEN [called |-> Append(calls, <<"handler", event, i>>), raised |-> TRUE]
         ELSE EmitEventUnguarded(event, i + 1, Append(calls, <<"handler", event, i>>))

\* _emit_event(event, data) from handler i on, after the calls already made:
\* each handler of the event is called in list order inside try/except
\* Exception, so a handler that raises is logged and the loop goes on.
\* called: the calls made; raised: whether an exception leaves _emit_event.
RECURSIVE EmitEvent(_, _, _)
EmitEvent(event, i, calls) ==
    IF i > Len(event_handlers[event]) THEN [called |-> calls, raised |-> FALSE]
    ELSE EmitEvent(event, i + 1, Append(calls, <<"handler", event, i>>))

\* register_agent storing the agent before it initializes it: when
\* initialize() raises the agent is already in the registry
RegisterAgentEager(a, init_ok) ==
    LET init_calls == IF is_initialized[a] THEN <<>> ELSE <<<<"initialize", a>>>>
        e == EmitEvent("agent_registered", 1, init_calls)
    IN  /\ registered_agents' = registered_agents \cup {a}
        /\ agent_capabilities' = agent_capabilities \cup {a}
        /\ IF ~is_initialized[a] /\ ~init_ok
           THEN /\ Out("Exception", <<>>)
                /\ called' = init_calls
                /\ UNCHANGED is_initialized
           ELSE /\ is_initialized' = [is_initialized EXCEPT ![a] = TRUE]
                /\ Out(IF e.raised THEN "Exception" ELSE "none", <<<<"agent_registered", a>>>>)
                /\ called' = e.called
        /\ UNCHANGED <<is_running, tasks, task_queue, pending_tasks_by_id, running_tasks,
                       completed_tasks, failed_tasks, metrics, workers, clock,
                       event_handlers>>

\* register_agent(agent); init_ok: whether agent.initialize() returns
RegisterAgent(a, init_ok) ==
    LET init_calls == IF is_initialized[a] THEN <<>> ELSE <<<<"initialize", a>>>>
        e == EmitEvent("agent_registered", 1, init_calls)
    IN  /\ IF ~is_initialized[a] /\ ~init_ok
           THEN \* initialize() raised: logged and raised again
                /\ Out("Exception", <<>>)
                /\ called' = init_calls
                /\ UNCHANGED <<registered_agents, agent_capabilities, is_initialized>>
           ELSE /\ is_initialized' = [is_initialized EXCEPT ![a] = TRUE]
                /\ registered_agents' = registered_agents \cup {a}
                /\ agent_capabilities' = agent_capabilities \cup {a}
                /\ Out(IF e.raised THEN "Exception" ELSE "none", <<<<"agent_registered", a>>>>)
                /\ called' = e.called
        /\ UNCHANGED <<is_running, tasks, task_queue, pending_tasks_by_id, running_tasks,
                       completed_tasks, failed_tasks, metrics, workers, clock,
                       event_handlers>>

\* unregister_agent without the try/except around cleanup(): when cleanup()
\* raises, the exception leaves unregister_agent before the entries are deleted
UnregisterAgentCleanupPropagates(a, cleanup_ok) ==
    LET e == EmitEvent("agent_unregistered", 1, <<<<"cleanup", a>>>>)
    IN  /\ IF a \in registered_agents /\ cleanup_ok
           THEN /\ is_initialized' = [is_initialized EXCEPT ![a] = FALSE]
                /\ registered_agents' = registered_agents \ {a}
                /\ agent_capabilities' = agent_capabilities \ {a}
                /\ Out(IF e.raised THEN "Exception" ELSE "none", <<<<"agent_unregistered", a>>>>)
                /\ called' = e.called
           ELSE /\ Out(IF a \in registered_agents THEN "Exception" ELSE "none", <<>>)
                /\ called' = IF a \in registered_agents THEN <<<<"cleanup", a>>>> ELSE <<>>
                /\ UNCHANGED <<registered_agents, agent_capabilities, is_initialized>>
        /\ UNCHANGED <<is_running, tasks, task_queue, pending_tasks_by_id, running_tasks,
                       completed_tasks, failed_tasks, metrics, workers, clock,
                       event_handlers>>

\* unregister_agent(agent_id); cleanup_ok: whether agent.cleanup() returns
UnregisterAgent(a, cleanup_ok) ==
    LET e == EmitEvent("agent_unregistered", 1, <<<<"cleanup", a>>>>)
    IN  /\ IF a \in registered_agents
           THEN /\ is_initialized' = [is_initialized EXCEPT ![a] = IF cleanup_ok THEN FALSE ELSE @]
                /\ registered_agents' = registered_agents \ {a}
                /\ agent_capabilities' = agent_capabilities \ {a}
                /\ Out(IF e.raised THEN "Exception" ELSE "none", <<<<"agent_unregistered", a>>>>)
                /\ called' = e.called
           ELSE \* no else branch in the code: returns None
                /\ Out("none", <<>>)
                /\ called' = <<>>
                /\ UNCHANGED <<registered_agents, agent_capabilities, is_initialized>>
        /\ UNCHANGED <<is_running, tasks, task_queue, pending_tasks_by_id, running_tasks,
                       completed_tasks, failed_tasks, metrics, workers, clock,
                       event_handlers>>

\* get_agent_status(agent_id): None for an id that is not registered
GetAgentStatus(a) ==
    /\ Out(IF a \in registered_agents THEN "dict" ELSE "None", <<>>)
    /\ called' = <<>>
    /\ UNCHANGED <<is_running, registered_agents, tasks, task_queue, pending_tasks_by_id,
                   running_tasks, completed_tasks, failed_tasks, metrics, workers, clock,
                   is_initialized, agent_capabilities, event_handlers>>

(* ------------------------------------------------------------------ *)
(* submit_task                                                          *)
(* ------------------------------------------------------------------ *)

\* _validate_task_dependencies: every dependency id is a key of
\* completed_tasks, running_tasks or pending_tasks_by_id
ValidateTaskDependencies(deps) ==
    \A d \in deps : d \in completed_tasks \/ d \in running_tasks \/ d \in pending_tasks_by_id

\* max_retries=max_retries or 3
EffectiveMaxRetries(arg) == IF arg = 0 THEN DefaultMaxRetries ELSE arg

\* what a task's callback does when it is awaited ("None": no callback given)
Callbacks == {"None", "returns", "raises"}

\* callback_calls counts the times the orchestrator has awaited the callback
NewTask(agent, prio, retries, deps, now, callback) ==
    [agent_id |-> agent, priority |-> prio, status |-> "pending",
     created_at |-> now, started_at |-> "None", retry_count |-> 0,
     max_retries |-> EffectiveMaxRetries(retries), max_retries_arg |-> retries,
     dependencies |-> deps, process_calls |-> 0,
     callback |-> callback, callback_calls |-> 0]

\* submit_task with the agent check moved after the enqueue: the Task is built
\* and recorded as pending before the ValueError is raised
SubmitUnknownAgentLate(agent) ==
    /\ agent \notin registered_agents
    /\ Out("ValueError: Agente no registrado", <<>>)
    /\ tasks' = Append(tasks, NewTask(agent, NORMAL, 0, {}, clock, "None"))
    /\ pending_tasks_by_id' = pending_tasks_by_id \cup {Len(tasks) + 1}
    /\ UNCHANGED <<task_queue, clock>>

\* the agent id is not a key of registered_agents: raise before any Task is built
SubmitUnknownAgent(agent) ==
    /\ agent \notin registered_agents
    /\ Out("ValueError: Agente no registrado", <<>>)
    /\ UNCHANGED <<tasks, task_queue, pending_tasks_by_id, clock>>

\* tick: whether utcnow() has advanced since the previous Task was created
SubmitKnownAgent(agent, prio, retries, deps, tick, callback) ==
    /\ agent \in registered_agents
    /\ clock + tick <= MaxClock
    /\ LET now == clock + tick
           t == Len(tasks) + 1
           pushed == HeapPush(task_queue, <<prio, now, t>>)
       IN  /\ clock' = now
           /\ IF ~ValidateTaskDependencies(deps)
              THEN \* raise ValueError("Dependencia no encontrada ...")
                   /\ Out("ValueError: Dependencia no encontrada", <<>>)
                   /\ UNCHANGED <<tasks, task_queue, pending_tasks_by_id>>
              ELSE /\ tasks' = Append(tasks, NewTask(agent, prio, retries, deps, now, callback))
                   /\ task_queue' = pushed.heap
                   /\ IF pushed.ok
                      THEN /\ pending_tasks_by_id' = pending_tasks_by_id \cup {t}
                           /\ Out("task_id", Emit(<<>>, t, "task_submitted"))
                      ELSE \* put() raised TypeError: the entry stays in the heap
                           /\ Out("TypeError", <<>>)
                           /\ UNCHANGED pending_tasks_by_id

\* submit_task(..., callback=callback)
SubmitTaskWithCallback(agent, prio, retries, deps, tick, callback) ==
    /\ IF agent \in registered_agents
       THEN SubmitKnownAgent(agent, prio, retries, deps, tick, callback)
       ELSE SubmitUnknownAgent(agent)
    /\ UNCHANGED <<is_running, registered_agents, running_tasks, completed_tasks,
                   failed_tasks, metrics, workers>>

\* submit_task without a callback (callback=None)
SubmitTask(agent, prio, retries, deps, tick) ==
    SubmitTaskWithCallback(agent, prio, retries, deps, tick, "None")

(* ------------------------------------------------------------------ *)
(* cancel_task                                                          *)
(* ------------------------------------------------------------------ *)

CancelTask(t) ==
    /\ IF t \in running_tasks
       THEN /\ tasks' = SetStatus(tasks, t, "cancelled")
            /\ running_tasks' = running_tasks \ {t}
            /\ failed_tasks' = failed_tasks \cup {t}
            /\ Out("True", Emit(<<>>, t, "task_cancelled"))
            /\ UNCHANGED pending_tasks_by_id
       ELSE IF t \in pending_tasks_by_id
       THEN /\ tasks' = SetStatus(tasks, t, "cancelled")
            /\ pending_tasks_by_id' = pending_tasks_by_id \ {t}
            /\ failed_tasks' = failed_tasks \cup {t}
            /\ Out("True", Emit(<<>>, t, "task_cancelled"))
            /\ UNCHANGED running_tasks
       ELSE /\ Out("False", <<>>)
            /\ UNCHANGED <<tasks, running_tasks, pending_tasks_by_id, failed_tasks>>
    /\ UNCHANGED <<is_running, registered_agents, task_queue, completed_tasks,
                   metrics, workers, clock>>

(* ------------------------------------------------------------------ *)
(* get_task_status                                                      *)
(* ------------------------------------------------------------------ *)

\* get_task_status(task_id): the record found in running_tasks, else in
\* completed_tasks, else in failed_tasks, else None
GetTaskStatus(t) ==
    /\ Out(IF t \in running_tasks \/ t \in completed_tasks \/ t \in failed_tasks
           THEN "dict" ELSE "None", <<>>)
    /\ UNCHANGED <<is_running, registered_agents, tasks, task_queue, pending_tasks_by_id,
                   running_tasks, completed_tasks, failed_tasks, metrics, workers, clock>>

(* ------------------------------------------------------------------ *)
(* Worker pool: _task_worker / _process_single_task                     *)
(* ------------------------------------------------------------------ *)

\* _check_task_dependencies: every dependency id is a key of completed_tasks
CheckTaskDependencies(t) == \A d \in tasks[t].dependencies : d \in completed_tasks

\* _update_task_metrics
UpdateTaskMetrics(st) ==
    [tasks_executed |-> metrics.tasks_executed + 1,
     tasks_completed |-> metrics.tasks_completed + (IF st = "completed" THEN 1 ELSE 0),
     tasks_failed |-> metrics.tasks_failed + (IF st = "failed" THEN 1 ELSE 0)]

\* whether _handle_task_failure retries: retry_count (already incremented) <= max_retries
ShouldRetry(retry_count, max_retries) == retry_count <= max_retries

\* _handle_task_failure up to its first suspension point, applied to the task
\* table T after the events E of this step.  via records whether it was called
\* from the try body ("try": unsuccessful result) or from an except handler.
HandleTaskFailure(w, t, T, E, via) ==
    LET n == T[t].retry_count + 1
        T1 == [T EXCEPT ![t].retry_count = n]
    IN  IF ShouldRetry(n, T[t].max_retries)
        THEN \* status = PENDING, started_at = None, then await asyncio.sleep(retry_delay)
             /\ tasks' = [T1 EXCEPT ![t].status = "pending", ![t].started_at = "None"]
             /\ Out("none", E)
             /\ workers' = SetWorker(w, "retry_delay", t, via)
             /\ UNCHANGED failed_tasks
        ELSE \* status = FAILED, failed_tasks[id] = task, emit task_failed
             /\ tasks' = SetStatus(T1, t, "failed")
             /\ failed_tasks' = failed_tasks \cup {t}
             /\ Out("none", Emit(E, t, "task_failed"))
             /\ workers' = SetWorker(w, "finally", t, "none")

\* _handle_task_success up to its first suspension point: the task is
\* COMPLETED and recorded; with a callback, the callback is awaited; without
\* one, task_completed is emitted and its handlers are awaited
HandleTaskSuccess(w, t) ==
    /\ completed_tasks' = completed_tasks \cup {t}
    /\ IF tasks[t].callback # "None"
       THEN /\ tasks' = [tasks EXCEPT ![t].status = "completed", ![t].callback_calls = @ + 1]
            /\ Out("none", <<>>)
            /\ workers' = SetWorker(w, "callback", t, "none")
       ELSE /\ tasks' = SetStatus(tasks, t, "completed")
            /\ Out("none", Emit(<<>>, t, "task_completed"))
            /\ workers' = SetWorker(w, "finally", t, "none")

\* task_queue.get() raises: the worker's except Exception logs and sleeps
WorkerGetError(w) ==
    /\ is_running /\ workers[w].pc = "get" /\ task_queue # <<>>
    /\ LET got == HeapPop(task_queue)
       IN  /\ ~got.ok
           /\ task_queue' = got.heap
           /\ workers' = SetWorker(w, "sleep", 0, "none")
    /\ Out("none", <<>>)
    /\ UNCHANGED <<is_running, registered_agents, tasks, pending_tasks_by_id, running_tasks,
                   completed_tasks, failed_tasks, metrics, clock>>

\* the popped task is already CANCELLED: discard it
WorkerDiscardCancelled(w) ==
    /\ is_running /\ workers[w].pc = "get" /\ task_queue # <<>>
    /\ LET got == HeapPop(task_queue)
           t == got.item[3]
       IN  /\ got.ok
           /\ tasks[t].status = "cancelled"
           /\ task_queue' = got.heap
           /\ pending_tasks_by_id' = pending_tasks_by_id \ {t}
           /\ failed_tasks' = failed_tasks \cup {t}
    /\ Out("none", <<>>)
    /\ UNCHANGED <<is_running, registered_agents, tasks, running_tasks, completed_tasks,
                   metrics, workers, clock>>

\* the popped task's dependencies are not all completed: re-enqueue, sleep(1)
WorkerRequeue(w) ==
    /\ is_running /\ workers[w].pc = "get" /\ task_queue # <<>>
    /\ LET got == HeapPop(task_queue)
           t == got.item[3]
           pushed == HeapPush(got.heap, got.item)
       IN  /\ got.ok
           /\ tasks[t].status # "cancelled"
           /\ ~CheckTaskDependencies(t)
           /\ task_queue' = pushed.heap
           /\ pending_tasks_by_id' =
                 IF pushed.ok THEN pending_tasks_by_id \cup {t} ELSE pending_tasks_by_id \ {t}
           /\ workers' = SetWorker(w, "sleep", 0, "none")
    /\ Out("none", <<>>)
    /\ UNCHANGED <<is_running, registered_agents, tasks, running_tasks, completed_tasks,
                   failed_tasks, metrics, clock>>

\* _process_single_task looking the agent up before its try block: the
\* KeyError of an unregistered agent id leaves _process_single_task, the task
\* stays RUNNING in running_tasks and the worker's except Exception sleeps
WorkerStartTaskLookupOutsideTry(w) ==
    /\ is_running /\ workers[w].pc = "get" /\ task_queue # <<>>
    /\ LET got == HeapPop(task_queue)
           t == got.item[3]
           T == [tasks EXCEPT ![t].status = "running", ![t].started_at = "utcnow"]
       IN  /\ got.ok
           /\ tasks[t].status # "cancelled"
           /\ CheckTaskDependencies(t)
           /\ task_queue' = got.heap
           /\ pending_tasks_by_id' = pending_tasks_by_id \ {t}
           /\ running_tasks' = running_tasks \cup {t}
           /\ IF tasks[t].agent_id \in registered_agents
              THEN /\ tasks' = [T EXCEPT ![t].process_calls = @ + 1]
                   /\ Out("none", Emit(<<>>, t, "task_started"))
                   /\ workers' = SetWorker(w, "process", t, "none")
              ELSE /\ tasks' = T
                   /\ Out("none", <<>>)
                   /\ workers' = SetWorker(w, "sleep", 0, "none")
    /\ UNCHANGED <<is_running, registered_agents, completed_tasks, failed_tasks, metrics, clock>>

\* the popped task is ready: _process_single_task up to the agent call
WorkerStartTask(w) ==
    /\ is_running /\ workers[w].pc = "get" /\ task_queue # <<>>
    /\ LET got == HeapPop(task_queue)
           t == got.item[3]
           \* task.status = RUNNING, task.started_at = datetime.utcnow()
           T == [tasks EXCEPT ![t].status = "running", ![t].started_at = "utcnow"]
           E == Emit(<<>>, t, "task_started")
       IN  /\ got.ok
           /\ tasks[t].status # "cancelled"
           /\ CheckTaskDependencies(t)
           /\ task_queue' = got.heap
           /\ pending_tasks_by_id' = pending_tasks_by_id \ {t}
           /\ running_tasks' = running_tasks \cup {t}
           /\ IF tasks[t].agent_id \in registered_agents
              THEN \* await agent.process(task.context)
                   /\ tasks' = [T EXCEPT ![t].process_calls = @ + 1]
                   /\ Out("none", E)
                   /\ workers' = SetWorker(w, "process", t, "none")
                   /\ UNCHANGED failed_tasks
              ELSE \* registered_agents[agent_id] raises KeyError
                   HandleTaskFailure(w, t, T, E, "except")
    /\ UNCHANGED <<is_running, registered_agents, completed_tasks, metrics, clock>>

\* the agent call ends: a successful result, an unsuccessful result, an
\* exception, or the deadline of wait_for
WorkerAgentReturns(w, outcome) ==
    /\ workers[w].pc = "process"
    /\ LET t == workers[w].task
       IN  IF outcome = "success"
           THEN HandleTaskSuccess(w, t) /\ UNCHANGED failed_tasks
           ELSE /\ HandleTaskFailure(w, t, tasks, <<>>,
                                     IF outcome = "unsuccessful" THEN "try" ELSE "except")
                /\ UNCHANGED completed_tasks
    /\ UNCHANGED <<is_running, registered_agents, task_queue, pending_tasks_by_id,
                   running_tasks, metrics, clock>>

\* the awaited callback has returned or raised (an exception is logged):
\* task_completed is emitted and its handlers are awaited
WorkerCallbackEnds(w) ==
    /\ workers[w].pc = "callback"
    /\ Out("none", Emit(<<>>, workers[w].task, "task_completed"))
    /\ workers' = SetWorker(w, "finally", workers[w].task, "none")
    /\ UNCHANGED <<is_running, registered_agents, tasks, task_queue, pending_tasks_by_id,
                   running_tasks, completed_tasks, failed_tasks, metrics, clock>>

\* the retry delay is over: re-enqueue (priority.value, created_at, task)
WorkerRetryEnqueue(w) ==
    /\ workers[w].pc = "retry_delay"
    /\ LET t == workers[w].task
           pushed == HeapPush(task_queue, Entry(t))
       IN  /\ task_queue' = pushed.heap
           /\ IF pushed.ok
              THEN /\ pending_tasks_by_id' = pending_tasks_by_id \cup {t}
                   /\ Out("none", Emit(<<>>, t, "task_retry"))
                   /\ workers' = SetWorker(w, "finally", t, "none")
                   /\ UNCHANGED <<tasks, failed_tasks, running_tasks, metrics>>
              ELSE IF workers[w].via = "try"
              THEN \* put() raised inside the try body: except Exception
                   \* calls _handle_task_failure again
                   /\ HandleTaskFailure(w, t, tasks, <<>>, "except")
                   /\ UNCHANGED <<pending_tasks_by_id, running_tasks, metrics>>
              ELSE \* put() raised inside an except handler: finally runs and
                   \* the worker's except Exception logs and sleeps
                   /\ running_tasks' = running_tasks \ {t}
                   /\ metrics' = UpdateTaskMetrics(tasks[t].status)
                   /\ workers' = SetWorker(w, "sleep", 0, "none")
                   /\ Out("none", <<>>)
                   /\ UNCHANGED <<tasks, failed_tasks, pending_tasks_by_id>>
    /\ UNCHANGED <<is_running, registered_agents, completed_tasks, clock>>

\* a finally block that forgets to delete the task from running_tasks
WorkerFinallyKeepsRunning(w) ==
    /\ workers[w].pc = "finally"
    /\ metrics' = UpdateTaskMetrics(tasks[workers[w].task].status)
    /\ workers' = SetWorker(w, "get", 0, "none")
    /\ Out("none", <<>>)
    /\ UNCHANGED <<is_running, registered_agents, tasks, task_queue, pending_tasks_by_id,
                   running_tasks, completed_tasks, failed_tasks, clock>>

\* finally: of _process_single_task, after the callback and event handlers
WorkerFinally(w) ==
    /\ workers[w].pc = "finally"
    /\ LET t == workers[w].task
       IN  /\ running_tasks' = running_tasks \ {t}
           /\ metrics' = UpdateTaskMetrics(tasks[t].status)
    /\ workers' = SetWorker(w, "get", 0, "none")
    /\ Out("none", <<>>)
    /\ UNCHANGED <<is_running, registered_agents, tasks, task_queue, pending_tasks_by_id,
                   completed_tasks, failed_tasks, clock>>

\* asyncio.sleep(1) of the worker loop is over
WorkerWake(w) ==
    /\ workers[w].pc = "sleep"
    /\ workers' = SetWorker(w, "get", 0, "none")
    /\ Out("none", <<>>)
    /\ UNCHANGED <<is_running, registered_agents, tasks, task_queue, pending_tasks_by_id,
                   running_tasks, completed_tasks, failed_tasks, metrics, clock>>

(* ------------------------------------------------------------------ *)
(* create_workflow, execute_workflow                                    *)
(* ------------------------------------------------------------------ *)

\* the step lists given to create_workflow: a step is identified by its
\* position in the list, names an agent and names the steps it depends on,
\* here among the earlier steps, itself and the position after it (a step
\* declared later, or no step of the list when it is the last one)
WorkflowSteps ==
    UNION {{steps \in [1..n -> [agent_id : AgentIds,
                                dependencies : SUBSET (1..(MaxWorkflowSteps + 1))]] :
               \A i \in 1..n : steps[i].dependencies \subseteq 1..(i + 1)} :
           n \in 0..MaxWorkflowSteps}

\* create_workflow that schedules as it stores: the first step's Task is built
\* and recorded as pending at creation
CreateWorkflowSchedules(steps) ==
    /\ workflows' = Append(workflows, [steps |-> steps, status |-> "pending",
                                       pc |-> "created", step_tasks |-> <<>>])
    /\ Out("workflow_id", <<>>)
    /\ IF steps = <<>>
       THEN UNCHANGED <<tasks, pending_tasks_by_id>>
       ELSE /\ tasks' = Append(tasks, NewTask(steps[1].agent_id, NORMAL, DefaultMaxRetries, {}, clock, "None"))
            /\ pending_tasks_by_id' = pending_tasks_by_id \cup {Len(tasks) + 1}
    /\ UNCHANGED <<is_running, registered_agents, task_queue,
                   running_tasks, completed_tasks, failed_tasks, metrics, workers, clock>>

\* create_workflow: the Workflow is stored under a fresh id with status PENDING
CreateWorkflow(steps) ==
    /\ workflows' = Append(workflows, [steps |-> steps, status |-> "pending",
                                       pc |-> "created", step_tasks |-> <<>>])
    /\ Out("workflow_id", <<>>)
    /\ UNCHANGED <<is_running, registered_agents, tasks, task_queue, pending_tasks_by_id,
                   running_tasks, completed_tasks, failed_tasks, metrics, workers, clock>>

\* execute_workflow of an id that is not a key of workflows
ExecuteWorkflowUnknown(wf) ==
    /\ wf \notin DOMAIN workflows
    /\ Out("ValueError: Workflow no encontrado", <<>>)
    /\ UNCHANGED <<is_running, registered_agents, tasks, task_queue, pending_tasks_by_id,
                   running_tasks, completed_tasks, failed_tasks, metrics, workers, clock,
                   workflows>>

\* [step_tasks[dep] for dep in step.dependencies if dep in step_tasks]
StepDependencies(step, step_tasks) ==
    {step_tasks[dep] : dep \in step.dependencies \cap DOMAIN step_tasks}

\* execute_workflow that undoes its work when a step cannot be submitted
\* because its agent is not registered: the tasks of the earlier steps are
\* cancelled before the error is raised
ExecuteWorkflowSubmitRollsBack(wf, tick) ==
    /\ wf \in DOMAIN workflows
    /\ workflows[wf].pc \in {"created", "submitting"}
    /\ Len(workflows[wf].step_tasks) < Len(workflows[wf].steps)
    /\ LET w == workflows[wf]
           step == w.steps[Len(w.step_tasks) + 1]
           earlier == {w.step_tasks[i] : i \in DOMAIN w.step_tasks}
       IN  IF step.agent_id \in registered_agents
           THEN /\ SubmitTask(step.agent_id, NORMAL, DefaultMaxRetries,
                              StepDependencies(step, w.step_tasks), tick)
                /\ workflows' =
                      IF ret' = "task_id"
                      THEN [workflows EXCEPT ![wf].status = "running",
                                             ![wf].pc = "submitting",
                                             ![wf].step_tasks = Append(w.step_tasks, Len(tasks) + 1)]
                      ELSE [workflows EXCEPT ![wf].status = "failed", ![wf].pc = "raised"]
           ELSE /\ tasks' = [t \in DOMAIN tasks |->
                                IF t \in earlier /\ t \in pending_tasks_by_id
                                THEN [tasks[t] EXCEPT !.status = "cancelled"] ELSE tasks[t]]
                /\ pending_tasks_by_id' = pending_tasks_by_id \ earlier
                /\ failed_tasks' = failed_tasks \cup (earlier \cap pending_tasks_by_id)
                /\ Out("ValueError: Agente no registrado", <<>>)
                /\ workflows' = [workflows EXCEPT ![wf].status = "failed", ![wf].pc = "raised"]
                /\ UNCHANGED <<is_running, registered_agents, task_queue, running_tasks,
                               completed_tasks, metrics, workers, clock>>

\* execute_workflow from its entry, or from the await in the previous
\* submit_task, up to the await in the next submit_task: the next step is
\* submitted with the default priority and no max_retries, and its task id is
\* recorded in step_tasks; an exception of submit_task sets the workflow to
\* FAILED and is raised to the caller.  ret is what submit_task returned to
\* execute_workflow or raised through it.
ExecuteWorkflowSubmit(wf, tick) ==
    /\ wf \in DOMAIN workflows
    /\ workflows[wf].pc \in {"created", "submitting"}
    /\ Len(workflows[wf].step_tasks) < Len(workflows[wf].steps)
    /\ LET w == workflows[wf]
           step == w.steps[Len(w.step_tasks) + 1]
       IN  /\ SubmitTask(step.agent_id, NORMAL, DefaultMaxRetries,
                         StepDependencies(step, w.step_tasks), tick)
           /\ workflows' =
                 IF ret' = "task_id"
                 THEN [workflows EXCEPT ![wf].status = "running",
                                        ![wf].pc = "submitting",
                                        ![wf].step_tasks = Append(w.step_tasks, Len(tasks) + 1)]
                 ELSE [workflows EXCEPT ![wf].status = "failed", ![wf].pc = "raised"]

\* execute_workflow that closes the workflow when it has submitted its steps:
\* the status is COMPLETED at the return
ExecuteWorkflowStartedCompletes(wf) ==
    /\ wf \in DOMAIN workflows
    /\ workflows[wf].pc \in {"created", "submitting"}
    /\ Len(workflows[wf].step_tasks) = Len(workflows[wf].steps)
    /\ workflows' = [workflows EXCEPT ![wf].status = "completed", ![wf].pc = "started"]
    /\ Out("execution_id", Emit(<<>>, wf, "workflow_started"))
    /\ UNCHANGED <<is_running, registered_agents, tasks, task_queue, pending_tasks_by_id,
                   running_tasks, completed_tasks, failed_tasks, metrics, workers, clock>>

\* execute_workflow after its last submit_task (from its entry when the
\* workflow has no steps): workflow_started is emitted and the execution id
\* returned; the workflow stays RUNNING
ExecuteWorkflowStarted(wf) ==
    /\ wf \in DOMAIN workflows
    /\ workflows[wf].pc \in {"created", "submitting"}
    /\ Len(workflows[wf].step_tasks) = Len(workflows[wf].steps)
    /\ workflows' = [workflows EXCEPT ![wf].status = "running", ![wf].pc = "started"]
    /\ Out("execution_id", Emit(<<>>, wf, "workflow_started"))
    /\ UNCHANGED <<is_running, registered_agents, tasks, task_queue, pending_tasks_by_id,
                   running_tasks, completed_tasks, failed_tasks, metrics, workers, clock>>

(* ------------------------------------------------------------------ *)
(* Health check: _health_check_loop / _perform_health_check             *)
(* ------------------------------------------------------------------ *)

\* what a health probe agent.process({'operation': 'health_check'}) under
\* wait_for does: a successful result, an unsuccessful one, an exception, or
\* no answer within the deadline
ProbeOutcomes == {"healthy", "unsuccessful", "exception", "timeout"}

\* what db_manager.test_connection_async() does in a health check
DbProbeOutcomes == {"ok", "fail", "raises"}

\* start() has created the _health_check_loop coroutine
HealthCheckLoopCreated(db_ok) ==
    health_check' = IF db_ok THEN [health_check EXCEPT !.pc = "loop"] ELSE health_check

\* _perform_health_check removing from the registry the agents whose probe failed
HealthCheckEvictsUnhealthy(outcome) ==
    /\ health_check.pc = "probing"
    /\ outcome \in [health_check.probed -> ProbeOutcomes]
    /\ health_check' = [health_check EXCEPT
            !.pc = "db",
            !.unhealthy_agents = {a \in health_check.probed : outcome[a] # "healthy"}]
    /\ registered_agents' = registered_agents \ health_check'.unhealthy_agents
    /\ Out("none", <<>>)
    /\ UNCHANGED <<is_running, tasks, task_queue, pending_tasks_by_id, running_tasks,
                   completed_tasks, failed_tasks, metrics, workers, clock,
                   is_initialized, agent_capabilities, event_handlers, called, workflows>>

\* while self.is_running: _perform_health_check() starts one probe per
\* registered agent and awaits them all
HealthCheckProbeAgents ==
    /\ health_check.pc = "loop"
    /\ is_running
    /\ health_check' = [health_check EXCEPT !.pc = "probing", !.probed = registered_agents,
                                            !.unhealthy_agents = {}, !.db_healthy = TRUE]
    /\ Out("none", <<>>)
    /\ UNCHANGED <<is_running, registered_agents, tasks, task_queue, pending_tasks_by_id,
                   running_tasks, completed_tasks, failed_tasks, metrics, workers, clock,
                   is_initialized, agent_capabilities, event_handlers, called, workflows>>

\* the probes have all answered: unhealthy_agents is the list of the agents
\* whose probe was unsuccessful, raised or timed out; next the DB is probed
HealthCheckAgentsAnswer(outcome) ==
    /\ health_check.pc = "probing"
    /\ outcome \in [health_check.probed -> ProbeOutcomes]
    /\ health_check' = [health_check EXCEPT
            !.pc = "db",
            !.unhealthy_agents = {a \in health_check.probed : outcome[a] # "healthy"}]
    /\ Out("none", <<>>)
    /\ UNCHANGED <<is_running, registered_agents, tasks, task_queue, pending_tasks_by_id,
                   running_tasks, completed_tasks, failed_tasks, metrics, workers, clock,
                   is_initialized, agent_capabilities, event_handlers, called, workflows>>

\* the DB probe has answered: the state is logged and the loop sleeps for
\* health_check_interval; a raising probe is logged by the loop, which sleeps too
HealthCheckDbAnswer(db) ==
    /\ health_check.pc = "db"
    /\ health_check' = [health_check EXCEPT !.pc = "sleep", !.db_healthy = (db = "ok")]
    /\ Out("none", <<>>)
    /\ UNCHANGED <<is_running, registered_agents, tasks, task_queue, pending_tasks_by_id,
                   running_tasks, completed_tasks, failed_tasks, metrics, workers, clock,
                   is_initialized, agent_capabilities, event_handlers, called, workflows>>

\* asyncio.sleep(health_check_interval) is over: the next cycle starts with
\* fresh locals
HealthCheckWake ==
    /\ health_check.pc = "sleep"
    /\ health_check' = [health_check EXCEPT !.pc = "loop", !.probed = {},
                                            !.unhealthy_agents = {}, !.db_healthy = TRUE]
    /\ Out("none", <<>>)
    /\ UNCHANGED <<is_running, registered_agents, tasks, task_queue, pending_tasks_by_id,
                   running_tasks, completed_tasks, failed_tasks, metrics, workers, clock,
                   is_initialized, agent_capabilities, event_handlers, called, workflows>>

(* ------------------------------------------------------------------ *)
(* Specification                                                        *)
(* ------------------------------------------------------------------ *)

Outcomes == {"success", "unsuccessful", "exception", "timeout"}

\* whether utcnow() may have stood still since the previous Task was created
Ticks == IF tasks = <<>> THEN {0} ELSE {0, 1}

\* what the task scheduler's own steps leave alone: the agent objects, the
\* handler lists, the health-check coroutine and the workflows
others == <<is_initialized, agent_capabilities, event_handlers, called, health_check, workflows>>

\* the caller-facing calls and the worker steps of the task scheduler; a
\* dependency id 0 names no task
Next ==
    \/ \E db_ok \in BOOLEAN : Start(db_ok) /\ UNCHANGED others
    \/ \E a \in AgentIds :
          a \notin registered_agents /\ RegisterAgent(a, TRUE)
          /\ UNCHANGED <<health_check, workflows>>
    \/ \E a \in AgentIds \cup UnknownAgentIds, p \in PriorityArgs, r \in RetriesArgs,
          deps \in SUBSET (0..Len(tasks)), tick \in Ticks :
          Len(tasks) < MaxTasks /\ SubmitTask(a, p, r, deps, tick) /\ UNCHANGED others
    \/ \E t \in 0..Len(tasks) : CancelTask(t) /\ UNCHANGED others
    \/ \E w \in DOMAIN workers : WorkerGetError(w) /\ UNCHANGED others
    \/ \E w \in DOMAIN workers : WorkerDiscardCancelled(w) /\ UNCHANGED others
    \/ \E w \in DOMAIN workers : WorkerRequeue(w) /\ UNCHANGED others
    \/ \E w \in DOMAIN workers : WorkerStartTask(w) /\ UNCHANGED others
    \/ \E w \in DOMAIN workers, o \in Outcomes : WorkerAgentReturns(w, o) /\ UNCHANGED others
    \/ \E w \in DOMAIN workers : WorkerRetryEnqueue(w) /\ UNCHANGED others
    \/ \E w \in DOMAIN workers : WorkerFinally(w) /\ UNCHANGED others
    \/ \E w \in DOMAIN workers : WorkerWake(w) /\ UNCHANGED others

Spec == Init /\ [][Next]_vars

\* a pool of PoolWorkers workers fed with tasks of one priority that have no
\* dependencies (so no popped task is ever put back to wait for one), whose
\* creation times may tie, that are retried once, and that may be cancelled
NextPool ==
    \/ Start(TRUE) /\ UNCHANGED others
    \/ \E a \in AgentIds :
          a \notin registered_agents /\ RegisterAgent(a, TRUE)
          /\ UNCHANGED <<health_check, workflows>>
    \/ \E a \in AgentIds, tick \in Ticks :
          Len(tasks) < PoolTasks /\ SubmitTask(a, NORMAL, 1, {}, tick) /\ UNCHANGED others
    \/ \E t \in TaskIds : CancelTask(t) /\ UNCHANGED others
    \/ \E w \in DOMAIN workers : WorkerGetError(w) /\ UNCHANGED others
    \/ \E w \in DOMAIN workers : WorkerDiscardCancelled(w) /\ UNCHANGED others
    \/ \E w \in DOMAIN workers : WorkerStartTask(w) /\ UNCHANGED others
    \/ \E w \in DOMAIN workers, o \in {"success", "unsuccessful"} :
          WorkerAgentReturns(w, o) /\ UNCHANGED others
    \/ \E w \in DOMAIN workers : WorkerRetryEnqueue(w) /\ UNCHANGED others
    \/ \E w \in DOMAIN workers : WorkerFinally(w) /\ UNCHANGED others
    \/ \E w \in DOMAIN workers : WorkerWake(w) /\ UNCHANGED others

SpecPool == InitN(PoolWorkers) /\ [][NextPool]_vars

\* what the health-check steps leave to the frame of a specification
scheduler_others == <<is_initialized, agent_capabilities, event_handlers, called, workflows>>

\* the health-check loop running next to the scheduler: tasks of one priority,
\* retried once, that may depend on each other and may be cancelled, and the
\* orchestrator may be stopped and started again (with these inputs the queue
\* never holds the three entries a failing get needs)
NextHealth ==
    \/ \E db_ok \in BOOLEAN :
          Start(db_ok) /\ HealthCheckLoopCreated(db_ok) /\ UNCHANGED scheduler_others
    \/ \E a \in AgentIds :
          a \notin registered_agents /\ RegisterAgent(a, TRUE)
          /\ UNCHANGED <<health_check, workflows>>
    \/ \E a \in AgentIds, deps \in SUBSET TaskIds, tick \in Ticks :
          Len(tasks) < MaxTasks /\ SubmitTask(a, NORMAL, 1, deps, tick) /\ UNCHANGED others
    \/ \E t \in TaskIds : CancelTask(t) /\ UNCHANGED others
    \/ \E w \in DOMAIN workers : WorkerDiscardCancelled(w) /\ UNCHANGED others
    \/ \E w \in DOMAIN workers : WorkerRequeue(w) /\ UNCHANGED others
    \/ \E w \in DOMAIN workers : WorkerStartTask(w) /\ UNCHANGED others
    \/ \E w \in DOMAIN workers, o \in {"success", "unsuccessful"} :
          WorkerAgentReturns(w, o) /\ UNCHANGED others
    \/ \E w \in DOMAIN workers : WorkerRetryEnqueue(w) /\ UNCHANGED others
    \/ \E w \in DOMAIN workers : WorkerFinally(w) /\ UNCHANGED others
    \/ \E w \in DOMAIN workers : WorkerWake(w) /\ UNCHANGED others
    \/ HealthCheckProbeAgents
    \/ \E outcome \in [AgentIds -> ProbeOutcomes] \cup {<<>>} : HealthCheckAgentsAnswer(outcome)
    \/ \E db \in DbProbeOutcomes : HealthCheckDbAnswer(db)
    \/ HealthCheckWake
    \/ Stop

SpecHealth == Init /\ [][NextHealth]_vars

\* the agent registry and the event handlers on their own: handlers are
\* registered, agents are registered, unregistered and asked for their status,
\* and tasks are submitted to them (no worker is started)
NextRegistry ==
    \/ \E ev \in HandledEvents, b \in HandlerBehaviours :
          Len(event_handlers[ev]) < MaxHandlers /\ On(ev, b)
          /\ UNCHANGED <<health_check, workflows>>
    \/ \E a \in AgentIds, init_ok \in BOOLEAN :
          RegisterAgent(a, init_ok) /\ UNCHANGED <<health_check, workflows>>
    \/ \E a \in AgentIds \cup UnknownAgentIds, cleanup_ok \in BOOLEAN :
          UnregisterAgent(a, cleanup_ok) /\ UNCHANGED <<health_check, workflows>>
    \/ \E a \in AgentIds \cup UnknownAgentIds :
          GetAgentStatus(a) /\ UNCHANGED <<health_check, workflows>>
    \/ \E a \in AgentIds, tick \in Ticks :
          Len(tasks) < MaxTasks /\ SubmitTask(a, NORMAL, 1, {}, tick) /\ UNCHANGED others

SpecRegistry == Init /\ [][NextRegistry]_vars

\* what the workflow calls leave to the frame of a specification
workflow_others == <<is_initialized, agent_capabilities, event_handlers, called, health_check>>

\* one workflow, whose steps depend on earlier steps or on themselves, created
\* and executed once while the worker runs its tasks, whose agents all
\* succeed, and a caller cancels them
NextWorkflow ==
    \/ Start(TRUE) /\ UNCHANGED others
    \/ \E a \in AgentIds :
          a \notin registered_agents /\ RegisterAgent(a, TRUE)
          /\ UNCHANGED <<health_check, workflows>>
    \/ \E steps \in WorkflowSteps :
          /\ Len(workflows) < MaxWorkflows
          /\ \A i \in DOMAIN steps : steps[i].dependencies \subseteq 1..i
          /\ CreateWorkflow(steps) /\ UNCHANGED workflow_others
    \/ \E wf \in 0..MaxWorkflows : ExecuteWorkflowUnknown(wf) /\ UNCHANGED workflow_others
    \/ \E wf \in 1..MaxWorkflows, tick \in Ticks :
          ExecuteWorkflowSubmit(wf, tick) /\ UNCHANGED workflow_others
    \/ \E wf \in 1..MaxWorkflows : ExecuteWorkflowStarted(wf) /\ UNCHANGED workflow_others
    \/ \E t \in TaskIds : CancelTask(t) /\ UNCHANGED others
    \/ \E w \in DOMAIN workers : WorkerDiscardCancelled(w) /\ UNCHANGED others
    \/ \E w \in DOMAIN workers : WorkerRequeue(w) /\ UNCHANGED others
    \/ \E w \in DOMAIN workers : WorkerStartTask(w) /\ UNCHANGED others
    \/ \E w \in DOMAIN workers : WorkerAgentReturns(w, "success") /\ UNCHANGED others
    \/ \E w \in DOMAIN workers : WorkerFinally(w) /\ UNCHANGED others
    \/ \E w \in DOMAIN workers : WorkerWake(w) /\ UNCHANGED others

SpecWorkflow == Init /\ [][NextWorkflow]_vars

\* one workflow of any shape created and executed once while the worker runs
\* its tasks, whose agents all succeed (no task is cancelled, so no popped
\* task is ever put back to wait for a dependency)
NextWorkflowUnordered ==
    \/ Start(TRUE) /\ UNCHANGED others
    \/ \E a \in AgentIds :
          a \notin registered_agents /\ RegisterAgent(a, TRUE)
          /\ UNCHANGED <<health_check, workflows>>
    \/ \E steps \in WorkflowSteps :
          Len(workflows) < MaxWorkflows /\ CreateWorkflow(steps) /\ UNCHANGED workflow_others
    \/ \E wf \in 0..MaxWorkflows : ExecuteWorkflowUnknown(wf) /\ UNCHANGED workflow_others
    \/ \E wf \in 1..MaxWorkflows, tick \in Ticks :
          ExecuteWorkflowSubmit(wf, tick) /\ UNCHANGED workflow_others
    \/ \E wf \in 1..MaxWorkflows : ExecuteWorkflowStarted(wf) /\ UNCHANGED workflow_others
    \/ \E w \in DOMAIN workers : WorkerStartTask(w) /\ UNCHANGED others
    \/ \E w \in DOMAIN workers : WorkerAgentReturns(w, "success") /\ UNCHANGED others
    \/ \E w \in DOMAIN workers : WorkerFinally(w) /\ UNCHANGED others

SpecWorkflowUnordered == Init /\ [][NextWorkflowUnordered]_vars

\* one workflow of at most MaxOutcomeSteps steps, each depending on earlier
\* steps only, created and executed once while the worker runs its tasks,
\* whose agents succeed or fail, and a caller cancels them
NextWorkflowOutcomes ==
    \/ Start(TRUE) /\ UNCHANGED others
    \/ \E a \in AgentIds :
          a \notin registered_agents /\ RegisterAgent(a, TRUE)
          /\ UNCHANGED <<health_check, workflows>>
    \/ \E steps \in WorkflowSteps :
          /\ Len(workflows) < MaxWorkflows
          /\ Len(steps) <= MaxOutcomeSteps
          /\ \A i \in DOMAIN steps : steps[i].dependencies \subseteq 1..(i - 1)
          /\ CreateWorkflow(steps) /\ UNCHANGED workflow_others
    \/ \E wf \in 1..MaxWorkflows, tick \in Ticks :
          ExecuteWorkflowSubmit(wf, tick) /\ UNCHANGED workflow_others
    \/ \E wf \in 1..MaxWorkflows : ExecuteWorkflowStarted(wf) /\ UNCHANGED workflow_others
    \/ \E t \in TaskIds : CancelTask(t) /\ UNCHANGED others
    \/ \E w \in DOMAIN workers : WorkerGetError(w) /\ UNCHANGED others
    \/ \E w \in DOMAIN workers : WorkerDiscardCancelled(w) /\ UNCHANGED others
    \/ \E w \in DOMAIN workers : WorkerRequeue(w) /\ UNCHANGED others
    \/ \E w \in DOMAIN workers : WorkerStartTask(w) /\ UNCHANGED others
    \/ \E w \in DOMAIN workers, o \in Outcomes : WorkerAgentReturns(w, o) /\ UNCHANGED others
    \/ \E w \in DOMAIN workers : WorkerRetryEnqueue(w) /\ UNCHANGED others
    \/ \E w \in DOMAIN workers : WorkerFinally(w) /\ UNCHANGED others
    \/ \E w \in DOMAIN workers : WorkerWake(w) /\ UNCHANGED others

SpecWorkflowOutcomes == Init /\ [][NextWorkflowOutcomes]_vars

\* tasks of one priority, retried up to CallbackRetries times, submitted with
\* or without a callback that returns or raises, run by one worker and
\* cancelled by a caller
NextCallback ==
    \/ Start(TRUE) /\ UNCHANGED others
    \/ \E a \in AgentIds :
          a \notin registered_agents /\ RegisterAgent(a, TRUE)
          /\ UNCHANGED <<health_check, workflows>>
    \/ \E a \in AgentIds, tick \in Ticks, callback \in Callbacks :
          /\ Len(tasks) < MaxTasks
          /\ SubmitTaskWithCallback(a, NORMAL, CallbackRetries, {}, tick, callback)
          /\ UNCHANGED others
    \/ \E t \in TaskIds : CancelTask(t) /\ UNCHANGED others
    \/ \E w \in DOMAIN workers : WorkerGetError(w) /\ UNCHANGED others
    \/ \E w \in DOMAIN workers : WorkerDiscardCancelled(w) /\ UNCHANGED others
    \/ \E w \in DOMAIN workers : WorkerStartTask(w) /\ UNCHANGED others
    \/ \E w \in DOMAIN workers, o \in {"success", "unsuccessful"} :
          WorkerAgentReturns(w, o) /\ UNCHANGED others
    \/ \E w \in DOMAIN workers : WorkerCallbackEnds(w) /\ UNCHANGED others
    \/ \E w \in DOMAIN workers : WorkerRetryEnqueue(w) /\ UNCHANGED others
    \/ \E w \in DOMAIN workers : WorkerFinally(w) /\ UNCHANGED others
    \/ \E w \in DOMAIN workers : WorkerWake(w) /\ UNCHANGED others

SpecCallback == Init /\ [][NextCallback]_vars

\* the steps one worker coroutine takes when the agents always succeed and
\* no two Tasks are created at the same time
LiveWorkerStep(w) ==
    \/ WorkerRequeue(w) /\ UNCHANGED others
    \/ WorkerStartTask(w) /\ UNCHANGED others
    \/ WorkerAgentReturns(w, "success") /\ UNCHANGED others
    \/ WorkerFinally(w) /\ UNCHANGED others
    \/ WorkerWake(w) /\ UNCHANGED others

\* an orchestrator that is started, whose agent is registered, fed with tasks
\* of any of the priorities that may depend on each other and are created at
\* distinct times; no task is cancelled and every agent call succeeds
NextLive ==
    \/ Start(TRUE) /\ UNCHANGED others
    \/ \E a \in AgentIds :
          a \notin registered_agents /\ RegisterAgent(a, TRUE)
          /\ UNCHANGED <<health_check, workflows>>
    \/ \E a \in AgentIds, p \in PriorityArgs, deps \in SUBSET TaskIds :
          /\ Len(tasks) < MaxTasks
          /\ SubmitTask(a, p, 1, deps, IF tasks = <<>> THEN 0 ELSE 1)
          /\ UNCHANGED others
    \/ \E w \in DOMAIN workers : LiveWorkerStep(w)

\* the event loop runs every coroutine that can run: start() returns, and a
\* worker that is not suspended for ever (its get has an entry to return,
\* its sleep ends, its agent answers) takes its next step
SpecLive ==
    /\ Init /\ [][NextLive]_vars
    /\ WF_vars(Start(TRUE) /\ UNCHANGED others)
    /\ \A w \in 1..NumWorkers : WF_vars(LiveWorkerStep(w))

\* tasks of one priority, retried once, whose creation times may tie, run by
\* one worker while their agent is unregistered and registered again
NextUnregister ==
    \/ Start(TRUE) /\ UNCHANGED others
    \/ \E a \in AgentIds :
          a \notin registered_agents /\ RegisterAgent(a, TRUE)
          /\ UNCHANGED <<health_check, workflows>>
    \/ \E a \in AgentIds, cleanup_ok \in BOOLEAN :
          a \in registered_agents /\ UnregisterAgent(a, cleanup_ok)
          /\ UNCHANGED <<health_check, workflows>>
    \/ \E a \in AgentIds, tick \in Ticks :
          Len(tasks) < MaxTasks /\ SubmitTask(a, NORMAL, 1, {}, tick) /\ UNCHANGED others
    \/ \E w \in DOMAIN workers : WorkerStartTask(w) /\ UNCHANGED others
    \/ \E w \in DOMAIN workers, o \in {"success", "unsuccessful"} :
          WorkerAgentReturns(w, o) /\ UNCHANGED others
    \/ \E w \in DOMAIN workers : WorkerRetryEnqueue(w) /\ UNCHANGED others
    \/ \E w \in DOMAIN workers : WorkerFinally(w) /\ UNCHANGED others
    \/ \E w \in DOMAIN workers : WorkerWake(w) /\ UNCHANGED others

SpecUnregister == Init /\ [][NextUnregister]_vars

\* one workflow of at most MaxOutcomeSteps steps, each depending on earlier
\* steps only, created and executed once while the worker runs its tasks and
\* while the agent is unregistered and registered again; every agent call
\* succeeds (with two tasks and no duplicated entry no get fails)
NextWorkflowFailure ==
    \/ Start(TRUE) /\ UNCHANGED others
    \/ \E a \in AgentIds :
          a \notin registered_agents /\ RegisterAgent(a, TRUE)
          /\ UNCHANGED <<health_check, workflows>>
    \/ \E a \in AgentIds :
          a \in registered_agents /\ UnregisterAgent(a, TRUE)
          /\ UNCHANGED <<health_check, workflows>>
    \/ \E steps \in WorkflowSteps :
          /\ Len(workflows) < MaxWorkflows
          /\ Len(steps) <= MaxOutcomeSteps
          /\ \A i \in DOMAIN steps : steps[i].dependencies \subseteq 1..(i - 1)
          /\ CreateWorkflow(steps) /\ UNCHANGED workflow_others
    \/ \E wf \in 1..MaxWorkflows, tick \in Ticks :
          ExecuteWorkflowSubmit(wf, tick) /\ UNCHANGED workflow_others
    \/ \E wf \in 1..MaxWorkflows : ExecuteWorkflowStarted(wf) /\ UNCHANGED workflow_others
    \/ \E w \in DOMAIN workers : WorkerRequeue(w) /\ UNCHANGED others
    \/ \E w \in DOMAIN workers : WorkerStartTask(w) /\ UNCHANGED others
    \/ \E w \in DOMAIN workers : WorkerAgentReturns(w, "success") /\ UNCHANGED others
    \/ \E w \in DOMAIN workers : WorkerRetryEnqueue(w) /\ UNCHANGED others
    \/ \E w \in DOMAIN workers : WorkerFinally(w) /\ UNCHANGED others
    \/ \E w \in DOMAIN workers : WorkerWake(w) /\ UNCHANGED others

SpecWorkflowFailure == Init /\ [][NextWorkflowFailure]_vars

\* tasks of one priority created at distinct times (so that every submission
\* to the registered agent returns a task id), retried once, that may depend
\* on each other and may be cancelled, run by one worker while a caller asks
\* for their status
NextStatus ==
    \/ Start(TRUE) /\ UNCHANGED others
    \/ \E a \in AgentIds :
          a \notin registered_agents /\ RegisterAgent(a, TRUE)
          /\ UNCHANGED <<health_check, workflows>>
    \/ \E a \in AgentIds, deps \in SUBSET TaskIds :
          /\ Len(tasks) < MaxTasks
          /\ SubmitTask(a, NORMAL, 1, deps, IF tasks = <<>> THEN 0 ELSE 1)
          /\ UNCHANGED others
    \/ \E t \in TaskIds : GetTaskStatus(t) /\ UNCHANGED others
    \/ \E t \in TaskIds : CancelTask(t) /\ UNCHANGED others
    \/ \E w \in DOMAIN workers : WorkerDiscardCancelled(w) /\ UNCHANGED others
    \/ \E w \in DOMAIN workers : WorkerRequeue(w) /\ UNCHANGED others
    \/ \E w \in DOMAIN workers : WorkerStartTask(w) /\ UNCHANGED others
    \/ \E w \in DOMAIN workers, o \in {"success", "unsuccessful"} :
          WorkerAgentReturns(w, o) /\ UNCHANGED others
    \/ \E w \in DOMAIN workers : WorkerRetryEnqueue(w) /\ UNCHANGED others
    \/ \E w \in DOMAIN workers : WorkerFinally(w) /\ UNCHANGED others
    \/ \E w \in DOMAIN workers : WorkerWake(w) /\ UNCHANGED others

SpecStatus == Init /\ [][NextStatus]_vars

(* ------------------------------------------------------------------ *)
(* Vocabulary of the properties                                         *)
(* ------------------------------------------------------------------ *)

Terminal == {"completed", "failed", "cancelled"}

\* task u has an entry in the queue
InQueue(u) == \E i \in 1..Len(task_queue) : task_queue[i][3] = u

\* task u waits in the queue and would be run by the worker that pops it
ReadyInQueue(u) ==
    /\ InQueue(u)
    /\ tasks[u].status = "pending"
    /\ CheckTaskDependencies(u)

\* this step emitted event ev for task t
Emitted(ev, t) == \E i \in 1..Len(emitted') : emitted'[i] = <<ev, t>>

\* the status changes the task model allows
AllowedTransitions ==
    {<<"pending", "running">>, <<"running", "completed">>, <<"running", "failed">>,
     <<"running", "pending">>, <<"pending", "cancelled">>, <<"running", "cancelled">>}

(* ------------------------------------------------------------------ *)
(* Properties                                                           *)
(* ------------------------------------------------------------------ *)

\* C1: when a worker dequeues a ready task for execution, no other ready task
\* waiting in the queue has a higher priority (CRITICAL > HIGH > NORMAL > LOW).
C1_HigherPriorityDequeuedFirst ==
    [][\A t \in TaskIds :
          (ReadyInQueue(t) /\ Emitted("task_started", t))
          => \A u \in TaskIds :
                ReadyInQueue(u) => tasks[u].priority <= tasks[t].priority]_vars

\* C2: a task leaves PENDING for RUNNING only in a state where every one of
\* its dependency ids names a task whose status is COMPLETED.
C2_RunsOnlyAfterDependenciesCompleted ==
    [][\A t \in TaskIds :
          (tasks[t].status = "pending" /\ tasks'[t].status = "running")
          => \A d \in tasks[t].dependencies :
                d \in TaskIds /\ tasks[d].status = "completed"]_vars

\* C3: every change of a task's status is PENDING->RUNNING, RUNNING->COMPLETED,
\* RUNNING->FAILED, RUNNING->PENDING or PENDING/RUNNING->CANCELLED.
C3_OnlyAllowedTransitions ==
    [][\A t \in TaskIds :
          tasks'[t].status # tasks[t].status
          => <<tasks[t].status, tasks'[t].status>> \in AllowedTransitions]_vars

\* C4: once a task is COMPLETED, FAILED or CANCELLED its status never changes.
C4_TerminalStatusImmutable ==
    [][\A t \in TaskIds :
          tasks[t].status \in Terminal => tasks'[t].status = tasks[t].status]_vars

\* C5: a task cancelled while it is inside an agent call stays CANCELLED when
\* the agent call returns: it is not added to the completed set, not reset to
\* PENDING for a retry and not marked FAILED.
C5_CancelledInAgentCallStaysCancelled ==
    [][\A w \in DOMAIN workers :
          (workers[w].pc = "process" /\ tasks[workers[w].task].status = "cancelled")
          => /\ tasks'[workers[w].task].status = "cancelled"
             /\ completed_tasks' = completed_tasks
             /\ workers'[w].pc # "retry_delay"]_vars

\* C6: a task submitted with max_retries = k >= 1 that has ended FAILED had its
\* agent invoked exactly k + 1 times, and never more than k + 1 times before.
C6_FailedAfterExactlyKPlusOneAttempts ==
    \A t \in TaskIds :
        tasks[t].max_retries_arg >= 1
        => /\ tasks[t].process_calls <= tasks[t].max_retries_arg + 1
           /\ tasks[t].status = "failed"
              => tasks[t].process_calls = tasks[t].max_retries_arg + 1

\* C7: a task submitted with max_retries = 0 whose agent has failed is FAILED:
\* it is never reset to PENDING for a retry and its agent is invoked once.
C7_ZeroRetriesNeverRetried ==
    \A t \in TaskIds :
        tasks[t].max_retries_arg = 0
        => /\ tasks[t].process_calls <= 1
           /\ tasks[t].retry_count >= 1 => tasks[t].status \in {"failed", "cancelled"}

\* C8: a task whose status is not FAILED has retry_count <= max_retries.
C8_RetryCountWithinMaxUnlessFailed ==
    \A t \in TaskIds :
        tasks[t].status # "failed" => tasks[t].retry_count <= tasks[t].max_retries

\* C9: cancel_task on a task that is COMPLETED, FAILED or CANCELLED returns
\* false, changes no task and no task set, and emits no event.
C9_CancelTerminalIsNoOp ==
    [][\A t \in TaskIds :
          (tasks[t].status \in Terminal /\ CancelTask(t))
          => /\ ret' = "False"
             /\ emitted' = <<>>
             /\ UNCHANGED <<tasks, task_queue, pending_tasks_by_id, running_tasks,
                            completed_tasks, failed_tasks>>]_vars

\* C10: submit_task with an agent id that is not registered raises ValueError
\* to the caller at once: no Task is built (the table of tasks and the clock
\* read by the Task constructor are untouched), the queue and the four task
\* sets are unchanged and no event is emitted.
C10_SubmitUnknownAgentRejected ==
    [][\A a \in AgentIds \cup UnknownAgentIds :
          (/\ a \notin registered_agents
           /\ \E p \in PriorityArgs, r \in RetriesArgs,
                 deps \in SUBSET (0..Len(tasks)), tick \in Ticks :
                 SubmitTask(a, p, r, deps, tick))
          => /\ ret' = "ValueError: Agente no registrado"
             /\ emitted' = <<>>
             /\ UNCHANGED <<tasks, clock, task_queue, pending_tasks_by_id,
                            running_tasks, completed_tasks, failed_tasks>>]_vars

\* C10 witness: a submission has just been rejected for an unregistered agent
\* id while agents are registered and a task is waiting in the queue.
C10_Witness ==
    /\ ret = "ValueError: Agente no registrado"
    /\ registered_agents # {}
    /\ task_queue # <<>>
    /\ pending_tasks_by_id # {}
    /\ Len(tasks) < MaxTasks

\* the dependency ids a submission may name: task d exists and is PENDING,
\* RUNNING or COMPLETED
DependencyUsable(d) ==
    d \in TaskIds /\ tasks[d].status \in {"pending", "running", "completed"}

\* C11: submit_task returns a task id only if every dependency id names a task
\* that is PENDING, RUNNING or COMPLETED; when a dependency id is unknown or
\* names a FAILED or CANCELLED task, submit_task raises, and the queue and the
\* pending set are unchanged and no event is emitted.
C11_SubmitRejectsUnusableDependencies ==
    [][\A a \in AgentIds, p \in PriorityArgs, r \in RetriesArgs,
          deps \in SUBSET (0..Len(tasks)), tick \in Ticks :
          (a \in registered_agents /\ SubmitTask(a, p, r, deps, tick))
          => /\ ret' = "task_id" => \A d \in deps : DependencyUsable(d)
             /\ (\E d \in deps : ~DependencyUsable(d))
                => /\ ret' = "ValueError: Dependencia no encontrada"
                   /\ emitted' = <<>>
                   /\ UNCHANGED <<task_queue, pending_tasks_by_id>>]_vars

\* C12: cancel_task on a task that waits in the queue (PENDING, entry in the
\* queue, known to the pending set) marks it CANCELLED, takes it out of the
\* pending set, records it in failed_tasks and returns true; and the agent is
\* not invoked for a CANCELLED task whose entry is in the queue: the worker
\* that pops the entry does not start it.
C12_CancelQueuedTask ==
    [][\A t \in TaskIds :
          /\ (/\ tasks[t].status = "pending"
              /\ InQueue(t)
              /\ t \in pending_tasks_by_id
              /\ CancelTask(t))
             => /\ tasks'[t].status = "cancelled"
                /\ t \notin pending_tasks_by_id'
                /\ t \in failed_tasks'
                /\ ret' = "True"
          /\ (tasks[t].status = "cancelled" /\ InQueue(t))
             => /\ tasks'[t].process_calls = tasks[t].process_calls
                /\ tasks'[t].status = "cancelled"
                /\ t \notin running_tasks']_vars

\* the ordering key of a task's queue entry, without the Task object
OrderingKey(t) == <<tasks[t].priority, tasks[t].created_at>>

\* C13: two distinct tasks never have equal ordering keys, and when a worker
\* dequeues a ready task for execution no ready task of the same priority
\* that was submitted earlier is waiting in the queue.
C13_EqualPriorityInSubmissionOrder ==
    [][/\ \A t, u \in 1..Len(tasks') :
             t # u => OrderingKey(t)' # OrderingKey(u)'
       /\ \A t \in TaskIds :
             (ReadyInQueue(t) /\ Emitted("task_started", t))
             => \A u \in TaskIds :
                   (ReadyInQueue(u) /\ tasks[u].priority = tasks[t].priority)
                   => t <= u]_vars

\* the three kinds of execution failure
FailureOutcomes == {"unsuccessful", "exception", "timeout"}

\* C16: whichever way an agent call fails (unsuccessful result, exception,
\* deadline), the task's retry_count grows by exactly one and the task is
\* either reset to PENDING and, once the retry delay is over, put back in the
\* queue and the pending set with that retry_count, or, when retry_count
\* exceeds max_retries, marked FAILED and recorded in failed_tasks.
C16_FailureKindsHandledAlike ==
    [][\A w \in DOMAIN workers :
          LET t == workers[w].task
          IN  /\ \A o \in FailureOutcomes :
                    (workers[w].pc = "process" /\ WorkerAgentReturns(w, o))
                    => /\ tasks'[t].retry_count = tasks[t].retry_count + 1
                       /\ IF tasks[t].retry_count + 1 <= tasks[t].max_retries
                          THEN tasks'[t].status = "pending" /\ workers'[w].pc = "retry_delay"
                          ELSE tasks'[t].status = "failed" /\ t \in failed_tasks'
              /\ (workers[w].pc = "retry_delay" /\ WorkerRetryEnqueue(w))
                 => /\ tasks'[t].retry_count = tasks[t].retry_count
                    /\ tasks'[t].status = tasks[t].status
                    /\ InQueue(t)'
                    /\ t \in pending_tasks_by_id']_vars

IsHandlerCall(c) == c[1] = "handler"

\* the values a caller-facing call hands back when it does not raise
Returns == {"none", "None", "dict", "True", "False", "task_id", "execution_id"}

\* C18: a step that emits an event calls every handler registered for that
\* event exactly once, in registration order, also after a handler raised, and
\* the emitting operation does not raise.
C18_EveryHandlerInvokedInOrder ==
    [][\A ev \in HandledEvents :
          (\E i \in 1..Len(emitted') : emitted'[i][1] = ev)
          => /\ SelectSeq(called', IsHandlerCall)
                = [i \in 1..Len(event_handlers[ev]) |-> <<"handler", ev, i>>]
             /\ ret' \in Returns]_vars

\* C18 witness: an operation has returned normally after calling the second
\* handler of an event whose first handler raises.
C18_Witness ==
    \E ev \in HandledEvents :
        /\ Len(event_handlers[ev]) >= 2
        /\ event_handlers[ev][1] = "raises"
        /\ \E i \in 1..Len(called) : called[i] = <<"handler", ev, 2>>
        /\ ret = "none"

\* C19: unregister_agent and get_agent_status called with an agent id that is
\* not registered end in an error: they do not return normally.
C19_UnknownAgentIdIsAnError ==
    [][\A a \in AgentIds \cup UnknownAgentIds :
          a \notin registered_agents
          => /\ (\E cleanup_ok \in BOOLEAN : UnregisterAgent(a, cleanup_ok))
                => ret' \notin Returns
             /\ GetAgentStatus(a) => ret' \notin Returns]_vars

\* C20: register_agent calls initialize exactly when the agent is not yet
\* initialized; when initialize raises, the caller gets the error, the
\* registry and the capabilities are unchanged and nothing is emitted;
\* otherwise the agent and its capabilities are stored under its id and
\* agent_registered is emitted.
C20_RegisterInitializesThenStores ==
    [][\A a \in AgentIds, init_ok \in BOOLEAN :
          RegisterAgent(a, init_ok)
          => /\ (\E i \in 1..Len(called') : called'[i] = <<"initialize", a>>)
                <=> ~is_initialized[a]
             /\ IF ~is_initialized[a] /\ ~init_ok
                THEN /\ ret' = "Exception"
                     /\ emitted' = <<>>
                     /\ UNCHANGED <<registered_agents, agent_capabilities>>
                ELSE /\ a \in registered_agents'
                     /\ a \in agent_capabilities'
                     /\ emitted' = <<<<"agent_registered", a>>>>]_vars

\* C20 witness: the last call was a register_agent whose initialize raised,
\* made on an orchestrator with no agent registered.
C20_Witness ==
    /\ ret = "Exception"
    /\ \E a \in AgentIds : called = <<<<"initialize", a>>>> /\ ~is_initialized[a]
    /\ registered_agents = {}

\* the workers that are inside agent.process on behalf of a task
InFlight == {w \in DOMAIN workers : workers[w].pc = "process"}

\* C17: the number of agent calls in flight for tasks and the size of the
\* running set never exceed max_concurrent_tasks.
C17_AtMostNConcurrentTasks ==
    /\ Cardinality(InFlight) <= PoolWorkers
    /\ Cardinality(running_tasks) <= PoolWorkers

\* C17 witness: every worker of the pool is inside an agent call, the running
\* set is full, and another task is waiting in the queue.
C17_Witness ==
    /\ Cardinality(InFlight) = PoolWorkers
    /\ Cardinality(running_tasks) = PoolWorkers
    /\ \E t \in TaskIds : tasks[t].status = "pending" /\ InQueue(t)

\* C15: every step of a running health-check cycle (a step of the loop, not
\* the stop() that cancels it), whatever the agent probes
\* and the DB probe answer, leaves the agent registry, the queue, every task
\* and the four task sets unchanged, and leaves the workers and is_running as
\* they are; the unhealthy agents are held for the cycle only and are gone
\* when the next cycle starts.
C15_HealthCheckChangesNothing ==
    [][(health_check.pc # "stopped" /\ health_check'.pc # "stopped"
        /\ health_check' # health_check)
       => /\ UNCHANGED <<registered_agents, agent_capabilities, is_initialized,
                         task_queue, tasks, pending_tasks_by_id, running_tasks,
                         completed_tasks, failed_tasks, workers, is_running>>
          /\ health_check'.pc = "loop" => health_check'.unhealthy_agents = {}]_vars

\* C15 witness: a health-check cycle found a registered agent unhealthy and the
\* DB probe failing while a task of that agent is inside its agent call and
\* another waits in the queue.
C15_Witness ==
    /\ health_check.pc = "sleep"
    /\ health_check.unhealthy_agents # {}
    /\ ~health_check.db_healthy
    /\ health_check.unhealthy_agents \subseteq registered_agents
    /\ \E w \in DOMAIN workers :
          /\ workers[w].pc = "process"
          /\ tasks[workers[w].task].agent_id \in health_check.unhealthy_agents
    /\ \E t \in TaskIds : tasks[t].status = "pending" /\ InQueue(t)

\* every dependency of a step is declared earlier in the list, and every
\* step's agent is registered
WellOrdered(steps) ==
    \A i \in DOMAIN steps :
        /\ steps[i].dependencies \subseteq 1..(i - 1)
        /\ steps[i].agent_id \in registered_agents

\* C14: executing a workflow whose steps declare their dependencies earlier
\* in the list submits exactly one task per step, in declaration order, each
\* with exactly the task ids generated for its dependency steps: an
\* execution never raises, each of its steps adds one task, for the next
\* step, whose dependencies are the recorded task ids of the step's
\* dependencies, and it returns only when every step has its task.
C14_WorkflowSubmitsOneTaskPerStep ==
    [][\A wf \in DOMAIN workflows :
          LET before == workflows[wf]
              after == workflows'[wf]
              i == Len(before.step_tasks) + 1
          IN  (WellOrdered(before.steps) /\ after # before)
              => /\ after.pc # "raised"
                 /\ after.pc = "submitting"
                    => /\ Len(tasks') = Len(tasks) + 1
                       /\ after.step_tasks = Append(before.step_tasks, Len(tasks'))
                       /\ tasks'[Len(tasks')].agent_id = before.steps[i].agent_id
                       /\ tasks'[Len(tasks')].dependencies =
                             {after.step_tasks[d] : d \in before.steps[i].dependencies}
                 /\ after.pc = "started"
                    => /\ Len(after.step_tasks) = Len(before.steps)
                       /\ tasks' = tasks]_vars

C22_CreateWorkflowOnlyStores ==
    [][(\E steps \in WorkflowSteps : CreateWorkflow(steps))
       => /\ Len(workflows') = Len(workflows) + 1
          /\ SubSeq(workflows', 1, Len(workflows)) = workflows
          /\ workflows'[Len(workflows')].status = "pending"
          /\ workflows'[Len(workflows')].step_tasks = <<>>
          /\ emitted' = <<>>
          /\ UNCHANGED <<tasks, task_queue, pending_tasks_by_id, running_tasks,
                         completed_tasks, failed_tasks, registered_agents,
                         agent_capabilities>>]_vars

\* C22 witness: a workflow has just been created, and is PENDING, whose steps
\* name an agent that is not registered and a dependency step that is not in
\* the list, and there is still no task.
C22_Witness ==
    /\ ret = "workflow_id"
    /\ tasks = <<>>
    /\ \E wf \in DOMAIN workflows :
          /\ workflows[wf].status = "pending"
          /\ \E i \in DOMAIN workflows[wf].steps :
                /\ workflows[wf].steps[i].agent_id \notin registered_agents
                /\ \E d \in workflows[wf].steps[i].dependencies :
                      d \notin DOMAIN workflows[wf].steps

\* C30: when the step execute_workflow is about to submit names a dependency
\* that is not declared before it (a later step, the step itself, or no step
\* of the list) and its agent is registered, execute_workflow does not fail:
\* the step's task is submitted, with the task ids of its earlier
\* dependencies only.
C30_UndeclaredDependencyIsDropped ==
    [][\A wf \in DOMAIN workflows :
          LET before == workflows[wf]
              after == workflows'[wf]
              i == Len(before.step_tasks) + 1
          IN  (/\ after # before
               /\ i \in DOMAIN before.steps
               /\ before.steps[i].agent_id \in registered_agents
               /\ \E d \in before.steps[i].dependencies : d >= i)
              => /\ after.pc = "submitting"
                 /\ after.step_tasks = Append(before.step_tasks, Len(tasks'))
                 /\ Len(tasks') = Len(tasks) + 1
                 /\ tasks'[Len(tasks')].dependencies =
                       {before.step_tasks[d] : d \in before.steps[i].dependencies \cap 1..(i - 1)}]_vars

\* C23: once execute_workflow has returned its execution id the workflow's
\* status is RUNNING, and it stays RUNNING whatever becomes of its tasks.
C23_StartedWorkflowStaysRunning ==
    \A wf \in DOMAIN workflows :
        workflows[wf].pc = "started" => workflows[wf].status = "running"

\* C23 witness: a started workflow of two steps is RUNNING although the task
\* of one step has COMPLETED and the task of the other has FAILED.
C23_Witness ==
    \E wf \in DOMAIN workflows :
        /\ workflows[wf].pc = "started"
        /\ workflows[wf].status = "running"
        /\ \E i, j \in DOMAIN workflows[wf].step_tasks :
              /\ tasks[workflows[wf].step_tasks[i]].status = "completed"
              /\ tasks[workflows[wf].step_tasks[j]].status = "failed"
              /\ metrics.tasks_executed >= 2

\* C24: a task id recorded in completed_tasks or in failed_tasks stays there:
\* no step removes an entry from either set.
C24_TerminalHistoryOnlyGrows ==
    [][/\ completed_tasks \subseteq completed_tasks'
       /\ failed_tasks \subseteq failed_tasks']_vars

\* C24 witness: the orchestrator has been stopped, with its health-check
\* loop, while both sets hold an entry and a second task was submitted after
\* the first.
C24_Witness ==
    /\ ~is_running
    /\ health_check.pc = "stopped"
    /\ completed_tasks # {}
    /\ failed_tasks # {}
    /\ Len(tasks) = MaxTasks

\* C25: when a failed attempt is retried the task is PENDING again with
\* started_at cleared; when the retry delay is over the task has an entry in
\* the queue under the priority and created_at it was submitted with, and
\* exactly one task_retry event is emitted for it; and no ready task is
\* dequeued for execution while a retried task of the same priority that was
\* submitted before it is ready in the queue.
C25_RetryKeepsPlaceInQueue ==
    [][/\ \A w \in DOMAIN workers :
             LET t == workers[w].task
             IN  /\ \A o \in FailureOutcomes :
                       (/\ workers[w].pc = "process"
                        /\ WorkerAgentReturns(w, o)
                        /\ workers'[w].pc = "retry_delay")
                       => /\ tasks'[t].status = "pending"
                          /\ tasks'[t].started_at = "None"
                 /\ (workers[w].pc = "retry_delay" /\ WorkerRetryEnqueue(w))
                    => /\ OrderingKey(t)' = OrderingKey(t)
                       /\ \E i \in 1..Len(task_queue') :
                             task_queue'[i] = <<OrderingKey(t)[1], OrderingKey(t)[2], t>>
                       /\ emitted' = <<<<"task_retry", t>>>>
       /\ \A t \in TaskIds :
             (ReadyInQueue(t) /\ Emitted("task_started", t))
             => \A u \in TaskIds :
                   (/\ ReadyInQueue(u)
                    /\ tasks[u].retry_count > 0
                    /\ tasks[u].priority = tasks[t].priority)
                   => u >= t]_vars

\* C26: on a successful agent result the task is marked COMPLETED and
\* recorded in completed_tasks and its callback, if it has one, is invoked;
\* task_completed is emitted after the callback has ended, whether it
\* returned or raised, and the task is then still COMPLETED; the callback is
\* invoked at no other step (not on a failure, a retry or the discarding of a
\* cancelled task), and at most once for a task.
C26_CallbackOnceOnSuccessOnly ==
    [][/\ \A w \in DOMAIN workers :
             LET t == workers[w].task
             IN  /\ (workers[w].pc = "process" /\ WorkerAgentReturns(w, "success"))
                    => /\ tasks'[t].status = "completed"
                       /\ t \in completed_tasks'
                       /\ IF tasks[t].callback = "None"
                          THEN /\ tasks'[t].callback_calls = tasks[t].callback_calls
                               /\ emitted' = <<<<"task_completed", t>>>>
                          ELSE /\ tasks'[t].callback_calls = tasks[t].callback_calls + 1
                               /\ emitted' = <<>>
                 /\ (workers[w].pc = "callback" /\ WorkerCallbackEnds(w))
                    => /\ tasks'[t].status = tasks[t].status
                       /\ tasks'[t].callback_calls = tasks[t].callback_calls
                       /\ t \in completed_tasks'
                       /\ emitted' = <<<<"task_completed", t>>>>
       /\ \A t \in TaskIds :
             tasks'[t].callback_calls # tasks[t].callback_calls
             => /\ \E w \in DOMAIN workers :
                      /\ workers[w].pc = "process" /\ workers[w].task = t
                      /\ WorkerAgentReturns(w, "success")
                /\ tasks'[t].callback_calls = 1]_vars

\* C27: when a worker ends an execution attempt (the finally block of
\* _process_single_task), the task of the attempt is not in running_tasks
\* and tasks_executed has grown by exactly 1; and after every step each task
\* whose status is RUNNING is in running_tasks.
C27_RunningTasksAreInRunningSet ==
    [][/\ \A w \in DOMAIN workers :
             (workers[w].pc = "finally" /\ WorkerFinally(w))
             => /\ workers[w].task \notin running_tasks'
                /\ metrics'.tasks_executed = metrics.tasks_executed + 1
       /\ \A t \in 1..Len(tasks') :
             tasks'[t].status = "running" => t \in running_tasks']_vars

\* C28: in every reachable state tasks_completed + tasks_failed is at most
\* tasks_executed, tasks_completed is the number of tasks whose status is
\* COMPLETED and tasks_failed the number of tasks whose status is FAILED.
C28_CountersMatchStatuses ==
    /\ metrics.tasks_completed + metrics.tasks_failed <= metrics.tasks_executed
    /\ metrics.tasks_completed = Cardinality({t \in TaskIds : tasks[t].status = "completed"})
    /\ metrics.tasks_failed = Cardinality({t \in TaskIds : tasks[t].status = "failed"})

\* task t waits in the queue and one of its dependencies is FAILED or CANCELLED
BlockedByDependency(t) ==
    /\ InQueue(t)
    /\ tasks[t].status = "pending"
    /\ \E d \in tasks[t].dependencies \cap TaskIds : tasks[d].status \in {"failed", "cancelled"}

\* C29: a queued task with a FAILED or CANCELLED dependency is never started
\* and never becomes terminal by itself: a step leaves it PENDING with no
\* agent call made for it, unless the step is its explicit cancellation.
C29_BlockedTaskNeverRuns ==
    [][\A t \in TaskIds :
          BlockedByDependency(t)
          => \/ /\ tasks'[t].status = "pending"
                /\ tasks'[t].process_calls = tasks[t].process_calls
                /\ t \notin running_tasks'
             \/ /\ CancelTask(t)
                /\ tasks'[t].status = "cancelled"]_vars

\* C31: when the orchestrator is running, no task is cancelled and every
\* agent call succeeds, each task that submit_task accepted is eventually
\* COMPLETED, also a task whose dependent sorts ahead of it in the queue.
C31_EverySubmittedTaskCompletes ==
    \A t \in 1..MaxTasks :
        (Len(tasks) >= t /\ t \in pending_tasks_by_id)
        ~> (Len(tasks) >= t /\ tasks[t].status = "completed")

\* C32: in every reachable state the pending set, the running set, the
\* completed set and the failed/cancelled set are pairwise disjoint.
C32_TaskSetsDisjoint ==
    /\ pending_tasks_by_id \cap running_tasks = {}
    /\ pending_tasks_by_id \cap completed_tasks = {}
    /\ pending_tasks_by_id \cap failed_tasks = {}
    /\ running_tasks \cap completed_tasks = {}
    /\ running_tasks \cap failed_tasks = {}
    /\ completed_tasks \cap failed_tasks = {}

\* the number of entries task t has in the queue
QueueEntries(t) == Cardinality({i \in 1..Len(task_queue) : task_queue[i][3] = t})

\* C33: in every reachable state a task has at most one entry in the queue
\* and at most one worker is inside an agent call for it.
C33_OneEntryOneAgentCallPerTask ==
    \A t \in TaskIds :
        /\ QueueEntries(t) <= 1
        /\ Cardinality({w \in InFlight : workers[w].task = t}) <= 1

\* the task at the head of the queue, which the next get() returns (0 when
\* the queue is empty)
HeadOfQueue == IF task_queue = <<>> THEN 0 ELSE HeapPop(task_queue).item[3]

\* C34: when a worker picks up a task whose agent is no longer registered, no
\* agent is called and the attempt counts as a failure: retry_count grows by
\* one and the task is PENDING again for a retry or, when retry_count exceeds
\* max_retries, FAILED and recorded in failed_tasks with task_failed emitted;
\* when the retry delay of such an attempt (one that ended in the except
\* handler) is over the task has an entry in the queue again; the worker goes
\* on and no other task is changed.
C34_UnregisteredAgentTaskFails ==
    [][\A w \in DOMAIN workers :
          LET t == HeadOfQueue
              u == workers[w].task
          IN  /\ (/\ workers[w].pc = "get"
                  /\ WorkerStartTask(w)
                  /\ tasks[t].agent_id \notin registered_agents)
                 => /\ tasks'[t].process_calls = tasks[t].process_calls
                    /\ tasks'[t].retry_count = tasks[t].retry_count + 1
                    /\ IF tasks[t].retry_count + 1 <= tasks[t].max_retries
                       THEN tasks'[t].status = "pending" /\ workers'[w].pc = "retry_delay"
                       ELSE /\ tasks'[t].status = "failed"
                            /\ t \in failed_tasks'
                            /\ Emitted("task_failed", t)
                            /\ workers'[w].pc = "finally"
                    /\ \A v \in TaskIds \ {t} : tasks'[v] = tasks[v]
              /\ (/\ workers[w].pc = "retry_delay"
                  /\ workers[w].via = "except"
                  /\ WorkerRetryEnqueue(w)
                  /\ tasks[u].agent_id \notin registered_agents)
                 => /\ \E i \in 1..Len(task_queue') : task_queue'[i][3] = u
                    /\ tasks'[u].status = "pending"
                    /\ workers'[w].pc \in {"finally", "sleep"}
                    /\ \A v \in TaskIds \ {u} : tasks'[v] = tasks[v]]_vars

\* C34 witness: the agent is not registered, a task for it has ended FAILED
\* after max_retries + 1 attempts in none of which an agent was called, a task
\* that ran before the unregistration is COMPLETED, and the worker is waiting
\* for the next task.
C34_Witness ==
    /\ registered_agents = {}
    /\ \E t, v \in TaskIds :
          /\ tasks[t].status = "failed"
          /\ tasks[t].process_calls = 0
          /\ tasks[t].retry_count = tasks[t].max_retries + 1
          /\ tasks[v].status = "completed"
    /\ \A w \in DOMAIN workers : workers[w].pc = "get"

\* the entries of the queue, as a set
QueueEntrySet(q) == {q[i] : i \in 1..Len(q)}

\* C35: when execute_workflow cannot submit a step because its agent is not
\* registered, the caller gets the error and the workflow is FAILED, and
\* nothing is rolled back: the tasks submitted for the earlier steps, their
\* queue entries and the pending, running, completed and failed sets are as
\* they were, so that the worker still executes them.
C35_FailedWorkflowRollsNothingBack ==
    [][\A wf \in DOMAIN workflows :
          LET before == workflows[wf]
              after == workflows'[wf]
              i == Len(before.step_tasks) + 1
          IN  (/\ after # before
               /\ before.pc \in {"created", "submitting"}
               /\ i \in DOMAIN before.steps
               /\ before.steps[i].agent_id \notin registered_agents)
              => /\ ret' = "ValueError: Agente no registrado"
                 /\ after.status = "failed"
                 /\ after.step_tasks = before.step_tasks
                 /\ emitted' = <<>>
                 /\ QueueEntrySet(task_queue) \subseteq QueueEntrySet(task_queue')
                 /\ UNCHANGED <<tasks, pending_tasks_by_id, running_tasks,
                                completed_tasks, failed_tasks, workers>>]_vars

\* C35 witness: a workflow is FAILED because its second step could not be
\* submitted, and the task of its first step, submitted before the failure,
\* has been executed since and is COMPLETED.
C35_Witness ==
    \E wf \in DOMAIN workflows :
        /\ workflows[wf].status = "failed"
        /\ workflows[wf].pc = "raised"
        /\ Len(workflows[wf].step_tasks) = 1
        /\ tasks[workflows[wf].step_tasks[1]].status = "completed"
        /\ tasks[workflows[wf].step_tasks[1]].process_calls = 1

\* C36: get_task_status of a task that submit_task accepted returns a record,
\* not None, in whatever state the task is.
C36_StatusOfSubmittedTaskIsKnown ==
    [][\A t \in TaskIds : GetTaskStatus(t) => ret' = "dict"]_vars

\* worker w is inside an execution attempt: task_started has been emitted for
\* its task and the attempt's outcome has not been announced yet
InAttempt(w) == workers[w].pc \in {"process", "callback", "retry_delay"}

\* the events that announce the outcome of an execution attempt
OutcomeEvents == {"task_completed", "task_retry", "task_failed"}

\* the positions of the outcome events this step emitted for task t
OutcomesEmitted(t) ==
    {i \in 1..Len(emitted') : emitted'[i][1] \in OutcomeEvents /\ emitted'[i][2] = t}

\* task_failed has been emitted for task t before (it is emitted exactly when
\* retry_count passes max_retries)
FailedBefore(t) == tasks[t].retry_count > tasks[t].max_retries

\* C37: task_submitted is emitted for a task at the step that creates it and
\* before every other of its events; task_started opens an execution attempt
\* only when no attempt of the task is open; an attempt is closed by exactly
\* one of task_completed, task_retry and task_failed, which are emitted at no
\* other step; and a task is announced COMPLETED or FAILED only if it was
\* neither before.
C37_TaskEventsInOrder ==
    [][/\ \A t \in 1..Len(tasks') :
             Emitted("task_submitted", t) => (t \notin TaskIds /\ emitted' = <<<<"task_submitted", t>>>>)
       /\ \A t \in TaskIds :
             /\ Emitted("task_started", t)
                => \A w \in DOMAIN workers : ~(InAttempt(w) /\ workers[w].task = t)
             /\ OutcomesEmitted(t) # {}
                => \E w \in DOMAIN workers :
                      InAttempt(w) /\ workers[w].task = t /\ ~InAttempt(w)'
             /\ (Emitted("task_completed", t) \/ Emitted("task_failed", t)
                 \/ (tasks'[t].status = "completed" /\ tasks[t].status # "completed"))
                => /\ ~FailedBefore(t)
                   /\ t \notin completed_tasks \/ \E w \in DOMAIN workers :
                                                     workers[w].pc = "callback" /\ workers[w].task = t
       /\ \A w \in DOMAIN workers :
             InAttempt(w)
             => IF InAttempt(w)' /\ workers'[w].task = workers[w].task
                THEN OutcomesEmitted(workers[w].task) = {}
                ELSE Cardinality(OutcomesEmitted(workers[w].task)) = 1]_vars

\* the sets among pending, completed and failed/cancelled that hold task t
\* after the step
TrackedIn(t) ==
    (IF t \in pending_tasks_by_id' THEN {"pending"} ELSE {})
    \cup (IF t \in completed_tasks' THEN {"completed"} ELSE {})
    \cup (IF t \in failed_tasks' THEN {"failed"} ELSE {})

\* C38: when stop() has completed, every worker has ended, the running set
\* is empty, no task has status RUNNING and every task that was recorded as
\* pending or running before is in exactly one of the pending, the completed
\* and the failed/cancelled set; and no task is started while the
\* orchestrator is not running.
C38_StopLeavesNoTaskRunning ==
    [][/\ Stop
          => /\ \A w \in DOMAIN workers : workers'[w].pc = "stopped"
             /\ running_tasks' = {}
             /\ \A t \in TaskIds :
                   /\ tasks'[t].status # "running"
                   /\ t \in pending_tasks_by_id \cup running_tasks
                      => Cardinality(TrackedIn(t)) = 1
       /\ ~is_running
          => \A t \in TaskIds : ~Emitted("task_started", t)]_vars

====
